---- MODULE Spec2Model ----
(***************************************************************************)
(* Startup, readiness and credential lifecycle of the sbomscanner storage  *)
(* command: cmd/storage/main.go (run, newDB, runServer), the migration     *)
(* runner, the readiness gates of internal/cmdutil/bootstrap.go and the    *)
(* storage API server with its database health checker.                    *)
(***************************************************************************)
EXTENDS Integers, Sequences, FiniteSets, TLC

\* ------------------------------------------------------------------------
\* Program constants
\* ------------------------------------------------------------------------
\* retry.Attempts(20)
Attempts == 20
\* retry.Delay(2 * time.Second), in seconds
Delay == 2
\* retry.MaxDelay(10 * time.Second), in seconds
MaxDelay == 10
\* tls.VersionTLS12 (0x0303)
VersionTLS12 == 771
\* context.WithTimeout(req.Context(), 5*time.Second), in seconds
CheckTimeout == 5
\* Bound: the runs of the command made in succession against one database.
MaxRuns == 2

\* ------------------------------------------------------------------------
\* Values
\* ------------------------------------------------------------------------
\* The certificate authorities the database server's certificate can be
\* issued by, and the host name that certificate is issued for.
CAs == {"CA1", "CA2"}
ServerCertName == "db"

\* Contents of the file at pgTLSCAFile: unreadable, or the set of CA
\* certificates its PEM blocks decode to (empty: no certificate parses).
NoCA == [readable |-> FALSE, certs |-> {}]
CAFileContents ==
    {[readable |-> FALSE, certs |-> {}], [readable |-> TRUE, certs |-> {}],
     [readable |-> TRUE, certs |-> {"CA1"}], [readable |-> TRUE, certs |-> {"CA2"}]}

\* Contents of the file at pgURIFile: missing, unparseable, or a URI with
\* its host list and its sslmode parameter ("" when the URI carries none).
SSLModes == {"", "disable", "allow", "prefer", "require", "verify-ca", "verify-full"}
HostLists == {<<"db">>, <<"alt">>, <<"db", "alt">>}
URIs == [state : {"ok"}, hosts : HostLists, sslmode : SSLModes]
BadURIFiles == [state : {"missing", "invalid"}, hosts : {<<>>}, sslmode : {""}]
URIFileContents == URIs \cup BadURIFiles

\* A tls.Config. enabled = FALSE stands for a nil *tls.Config (cleartext).
\* RootCAs = {} with enabled = TRUE stands for RootCAs = nil, the host's
\* system roots, which hold neither private database CA. VerifyPeer stands
\* for the VerifyPeerCertificate callback pgconn installs for verify-ca.
NoTLS ==
    [enabled |-> FALSE, RootCAs |-> {}, ServerName |-> "", MinVersion |-> 0,
     InsecureSkipVerify |-> FALSE, VerifyPeer |-> FALSE]

\* A physical connection of the pool.
NoConn == [open |-> FALSE, tls |-> FALSE, host |-> "", RootCAs |-> {}]

\* Contents of the certFile/keyFile pair: unreadable, or a certificate and a
\* key, which match or not. NoPair: the provider holds nothing yet.
NoPair == [readable |-> FALSE, cert |-> "", key |-> ""]
PairContents ==
    {NoPair,
     [readable |-> TRUE, cert |-> "certA", key |-> "keyA"],
     [readable |-> TRUE, cert |-> "certB", key |-> "keyB"],
     [readable |-> TRUE, cert |-> "certA", key |-> "keyB"]}

\* The statements of the migration runner, by the table each creates.
\* A health check: the pings it made, its deadline and how long it took (s).
NoCheck == [pings |-> 0, deadline |-> 0, elapsed |-> 0]
\* The deadline the caller's request carries, in seconds from the check's
\* start (0: none), and the time the database takes to answer a ping.
ReqDeadlines == {0, 2, 60}
Latencies == {0, 10}

Statements == <<"images", "sboms", "vulnerabilityreports">>
AllTables == {Statements[j] : j \in 1..Len(Statements)}

\* An error value: nil, or a message prefix wrapping a cause. at is the
\* probe invocation the cause comes from (0 when it comes from no probe).
Nil == [label |-> "", cause |-> "", at |-> 0]
Err(label, cause, at) == [label |-> label, cause |-> cause, at |-> at]

\* ------------------------------------------------------------------------
\* State
\* ------------------------------------------------------------------------
VARIABLES
    \* environment: files on disk and the database server
    uriFile,        \* content of pgURIFile
    caFile,         \* content of pgTLSCAFile
    certFiles,      \* content of certFile/keyFile
    dbUp,           \* the database server is reachable
    serverMode,     \* what the server accepts: "tls", "plain" or "both"
    serverIssuer,   \* the CA that issued the server's current certificate
    tables,         \* tables present in the database
    \* the process
    initFlag,       \* --init
    pc,             \* position of main/run
    ctxCancelled,   \* the signal context is done
    runErr,         \* error returned by run()
    exitCode,       \* process exit code, -1 while running
    \* the pool built by newDB
    pool,           \* "none", "open", "closed"
    closeCount,     \* calls of db.Close
    config,         \* config.ConnConfig as returned by pgxpool.ParseConfig
    conn,           \* the pool's idle physical connection
    lastDial,       \* what the last physical connection attempt used
    caAtDial,       \* the CA file content on disk at that attempt
    caAtPrevDial,   \* the CA file content on disk at the attempt before it
    \* the readiness gate in progress (retry.Do)
    gate,           \* which gate: "Postgres", "JetStream", "StorageTypes", "" if none
    gpc,            \* "idle", "attempt", "probing", "select", "returned"
    n,              \* retry.Do's attempt counter
    calls,          \* invocations of the probe
    fails,          \* invocations that returned an error
    oks,            \* invocations that returned nil
    lastErr,        \* the error of the last failed invocation
    gateErr,        \* the error the gate returned
    sel,            \* the select of a sleep: "none", "timer" or "done"
    delay,          \* duration of the current sleep, in seconds
    sleepCancel,    \* invocations made when a sleep was cancelled, -1 if none was
    \* the migration runner
    executed,       \* the statements RunMigrations has executed, in order
    \* the storage API server
    srv,            \* "none" or "created" (NewStorageAPIServer returned it)
    listening,      \* the listener accepts requests
    current,        \* the serving certificate and key the provider holds
    certLog,        \* the provider's last log event: "", "loaded" or "error"
    health,         \* the result of the last health check: "", "healthy", "error"
    lastCheck,      \* the pings, deadline and duration of the last health check
    \* the refresh of the certificate provider, step by step
    rpc,            \* "idle", "readKey" (certificate read), "loaded" (key read)
    rbuf,           \* the certificate and key read from the files so far
    served,         \* the pair the last TLS handshake obtained from the provider
    \* successive runs of the command against one database
    runs,           \* the number of the current run of the process
    prevExit,       \* the exit code of the previous run, -1 if there was none
    prevTables      \* the schema the previous run left

envVars == <<uriFile, caFile, certFiles, dbUp, serverMode, serverIssuer, tables>>
runVars == <<initFlag, pc, ctxCancelled, runErr, exitCode>>
poolVars == <<pool, closeCount, config, conn, lastDial, caAtDial, caAtPrevDial>>
gateVars == <<gate, gpc, n, calls, fails, oks, lastErr, gateErr, sel, delay, sleepCancel>>
srvVars == <<executed, srv, listening, current, certLog, health>>
checkVars == <<lastCheck>>
certVars == <<rpc, rbuf, served>>
histVars == <<runs, prevExit, prevTables>>
auxVars == <<checkVars, certVars, histVars>>
vars == <<envVars, runVars, poolVars, gateVars, srvVars, auxVars>>

\* ------------------------------------------------------------------------
\* pgxpool.ParseConfig as newDB uses it (main.go:102)
\* ------------------------------------------------------------------------
\* The TLS configurations pgconn derives from sslmode for one host, in the
\* order it tries them.
TLSFromSSLMode(mode, host) ==
    LET insecure == [enabled |-> TRUE, RootCAs |-> {}, ServerName |-> "",
                     MinVersion |-> 0, InsecureSkipVerify |-> TRUE, VerifyPeer |-> FALSE]
    IN  CASE mode = "disable" -> <<NoTLS>>
          [] mode = "allow" -> <<NoTLS, insecure>>
          [] mode \in {"", "prefer"} -> <<insecure, NoTLS>>
          [] mode = "require" -> <<insecure>>
          [] mode = "verify-ca" -> <<[insecure EXCEPT !.VerifyPeer = TRUE]>>
          [] mode = "verify-full" ->
                <<[insecure EXCEPT !.InsecureSkipVerify = FALSE, !.ServerName = host]>>

RECURSIVE HostConfigs(_, _, _)
HostConfigs(hosts, mode, i) ==
    IF i > Len(hosts) THEN <<>>
    ELSE LET t == TLSFromSSLMode(mode, hosts[i])
         IN  [j \in 1..Len(t) |-> [Host |-> hosts[i], TLSConfig |-> t[j]]]
             \o HostConfigs(hosts, mode, i + 1)

\* config.ConnConfig: the first host with its first TLS configuration, every
\* other (host, TLS configuration) as a fallback.
ParseConfig(uri) ==
    LET all == HostConfigs(uri.hosts, uri.sslmode, 1)
    IN  [Host |-> all[1].Host, TLSConfig |-> all[1].TLSConfig, Fallbacks |-> Tail(all)]

EmptyConfig == [Host |-> "", TLSConfig |-> NoTLS, Fallbacks |-> <<>>]
NoDial == [dialed |-> FALSE, cfg |-> EmptyConfig]

\* ------------------------------------------------------------------------
\* newDB's BeforeConnect callback (main.go:111-132)
\* ------------------------------------------------------------------------
\* x509.CertPool.AppendCertsFromPEM: false when no certificate parses.
AppendCertsFromPEM(serverCA) == serverCA.certs # {}

\* The tls.Config of main.go:124-129.
NewTLSConfig(caCertPool, host) ==
    [enabled |-> TRUE, RootCAs |-> caCertPool, ServerName |-> host,
     MinVersion |-> VersionTLS12, InsecureSkipVerify |-> FALSE, VerifyPeer |-> FALSE]

\* A callback that leaves the URI's fallbacks in place.
KeepFallbacks(fallbacks) == fallbacks

\* The fallbacks the callback leaves in connConfig (main.go:112).
ClearFallbacks(fallbacks) == <<>>

\* A callback that sets the TLS configuration only when the parsed URI left
\* none, and so keeps the one pgxpool.ParseConfig derived from the URI.
BeforeConnectIfUnset(connConfig, ca, host) ==
    LET c1 == [connConfig EXCEPT !.Fallbacks = <<>>]
    IN  IF ~ca.readable
        THEN [err |-> "reading database server CA certificate", cfg |-> c1]
        ELSE IF ~AppendCertsFromPEM(ca)
        THEN [err |-> "appending database server CA certificate to pool", cfg |-> c1]
        ELSE IF connConfig.TLSConfig.enabled
        THEN [err |-> "", cfg |-> c1]
        ELSE [err |-> "", cfg |-> [c1 EXCEPT !.TLSConfig = NewTLSConfig(ca.certs, host)]]

\* The callback on a copy connConfig of the pool's configuration, with the CA
\* file content ca and the host of the parsed URI. Returns its error and
\* connConfig as it leaves it.
BeforeConnect(connConfig, ca, host) ==
    LET c1 == [connConfig EXCEPT !.Fallbacks = ClearFallbacks(connConfig.Fallbacks)]
    IN  IF ~ca.readable
        THEN [err |-> "reading database server CA certificate", cfg |-> c1]
        ELSE IF ~AppendCertsFromPEM(ca)
        THEN [err |-> "appending database server CA certificate to pool", cfg |-> c1]
        ELSE [err |-> "", cfg |-> [c1 EXCEPT !.TLSConfig = NewTLSConfig(ca.certs, host)]]

\* ------------------------------------------------------------------------
\* The pool opening a physical connection (pgxpool.NewWithConfig, main.go:134)
\* ------------------------------------------------------------------------
\* crypto/tls verification of the server's certificate under t.
Verifies(t, issuer) ==
    IF t.InsecureSkipVerify
    THEN ~t.VerifyPeer \/ issuer \in t.RootCAs
    ELSE issuer \in t.RootCAs /\ t.ServerName = ServerCertName

\* One connection attempt with one (host, TLS configuration).
TryConnect(fc, up, mode, issuer) ==
    IF ~up THEN "unreachable"
    ELSE IF ~fc.TLSConfig.enabled
    THEN IF mode \in {"plain", "both"} THEN "" ELSE "server requires TLS"
    ELSE IF mode = "plain" THEN "server refused TLS connection"
    ELSE IF Verifies(fc.TLSConfig, issuer) THEN ""
    ELSE "certificate verification failed"

\* pgconn tries the primary configuration, then each fallback in order, and
\* keeps the first that connects; the error is the last attempt's.
RECURSIVE ConnectFrom(_, _, _, _, _)
ConnectFrom(cfgs, i, up, mode, issuer) ==
    LET r == TryConnect(cfgs[i], up, mode, issuer)
    IN  IF r = ""
        THEN [err |-> "",
              conn |-> [open |-> TRUE, tls |-> cfgs[i].TLSConfig.enabled,
                        host |-> cfgs[i].Host, RootCAs |-> cfgs[i].TLSConfig.RootCAs]]
        ELSE IF i = Len(cfgs) THEN [err |-> r, conn |-> NoConn]
        ELSE ConnectFrom(cfgs, i + 1, up, mode, issuer)

ConnectConfig(cfg, up, mode, issuer) ==
    ConnectFrom(<<[Host |-> cfg.Host, TLSConfig |-> cfg.TLSConfig]>> \o cfg.Fallbacks,
                1, up, mode, issuer)

\* The pool's constructor: BeforeConnect on a copy of the configuration, then
\* the connection attempt, which is made only when the callback returns nil.
\* Returns the error, the connection and the record of the attempt.
OpenConn(poolConfig, ca, up, mode, issuer) ==
    LET bc == BeforeConnect(poolConfig, ca, poolConfig.Host)
        c  == ConnectConfig(bc.cfg, up, mode, issuer)
    IN  IF bc.err # ""
        THEN [err |-> bc.err, conn |-> NoConn, dialed |-> FALSE, cfg |-> bc.cfg]
        ELSE [err |-> c.err, conn |-> c.conn, dialed |-> TRUE, cfg |-> bc.cfg]

\* A pool user acquiring a connection under a context: the idle connection
\* when there is one and it still works, a new physical connection otherwise.
Acquire(cancelled, poolConfig, idle, ca, up, mode, issuer) ==
    IF cancelled
    THEN [err |-> "context canceled", conn |-> idle, dialed |-> FALSE, cfg |-> EmptyConfig]
    ELSE IF idle.open /\ up
    THEN [err |-> "", conn |-> idle, dialed |-> FALSE, cfg |-> EmptyConfig]
    ELSE OpenConn(poolConfig, ca, up, mode, issuer)

\* What a pool operation with result r leaves in the pool.
PoolAfter(r) ==
    /\ conn' = r.conn
    /\ lastDial' = IF r.dialed THEN [dialed |-> TRUE, cfg |-> r.cfg] ELSE lastDial
    /\ caAtDial' = IF r.dialed THEN caFile ELSE caAtDial
    /\ caAtPrevDial' = IF r.dialed /\ lastDial.dialed THEN caAtDial ELSE caAtPrevDial
    /\ UNCHANGED <<pool, closeCount, config>>

\* ------------------------------------------------------------------------
\* retryOptions and retry.Do (bootstrap.go:109-119 and its three callers)
\* ------------------------------------------------------------------------
RECURSIVE Pow2(_)
Pow2(k) == IF k = 0 THEN 1 ELSE 2 * Pow2(k - 1)

Min(a, b) == IF a < b THEN a ELSE b

\* A backoff that doubles without the MaxDelay cap.
BackOffDelayUncapped(k) == Delay * Pow2(k)

\* retry.BackOffDelay capped by retry.MaxDelay: the sleep after the failure
\* of the attempt numbered k (from 0).
BackOffDelay(k) == Min(Delay * Pow2(k), MaxDelay)

\* retry.Attempts: the attempt numbered k (from 0) is the last permitted one.
LastAttempt(k) == k = Attempts - 1

\* Without retry.LastErrorOnly(true) retry.Do returns the list of all failures.
AllErrors(last) == [last EXCEPT !.cause = "All attempts fail", !.at = 0]

\* retry.LastErrorOnly(true): of the failures logged, the one retry.Do returns.
LastErrorOnly(last) == last

\* Without retry.Context(ctx) the sleep waits for its timer alone.
SelectTimerOnly(s, done) == s

\* retry.Context(ctx): the sleep selects on ctx.Done() beside its timer, and an
\* unresolved select takes the Done case as soon as the context is done.
SelectContext(s, done) == IF s = "none" /\ done THEN "done" ELSE s

TimeoutLabel(g) ==
    CASE g = "Postgres" -> "timeout while waiting for Postgres"
      [] g = "JetStream" -> "timeout while waiting for JetStream"
      [] g = "StorageTypes" -> "timeout while waiting for storage types"

\* The errors one invocation of a gate's probe can return besides nil, for
\* the probes that do not go through the pool.
ProbeFailures(g) ==
    CASE g = "JetStream" ->
            {"failed to connect to NATS", "JetStream not available",
             "failed to get JetStream account info"}
      [] g = "StorageTypes" -> {"group version not available"}
      [] OTHER -> {}

\* A retry.Do that looks at the context only in the select of its sleeps.
RetryDoNoEntryCheck(g) ==
    /\ gate' = g
    /\ n' = 0
    /\ calls' = 0
    /\ fails' = 0
    /\ oks' = 0
    /\ lastErr' = Nil
    /\ sel' = "none"
    /\ delay' = 0
    /\ sleepCancel' = -1
    /\ gpc' = "attempt"
    /\ gateErr' = Nil

\* Entering retry.Do for gate g: it returns the context's error at once when
\* the context is already done.
RetryDo(g) ==
    /\ gate' = g
    /\ n' = 0
    /\ calls' = 0
    /\ fails' = 0
    /\ oks' = 0
    /\ lastErr' = Nil
    /\ sel' = "none"
    /\ delay' = 0
    /\ sleepCancel' = -1
    /\ IF ctxCancelled
       THEN /\ gpc' = "returned"
            /\ gateErr' = Err(TimeoutLabel(g), "context canceled", 0)
       ELSE /\ gpc' = "attempt"
            /\ gateErr' = Nil

WaitForPostgres ==
    /\ pc \in {"WaitForPostgres", "caller"}
    /\ gpc = "idle"
    /\ pool = "open"
    /\ RetryDo("Postgres")
    /\ UNCHANGED <<envVars, auxVars, runVars, poolVars, srvVars>>

WaitForJetStream ==
    /\ pc = "caller"
    /\ gpc = "idle"
    /\ RetryDo("JetStream")
    /\ UNCHANGED <<envVars, auxVars, runVars, poolVars, srvVars>>

\* WaitForStorageTypes first builds its HTTP and discovery clients from the
\* rest.Config; either can fail, and then no probe is made.
WaitForStorageTypes ==
    /\ pc = "caller"
    /\ gpc = "idle"
    /\ \E built \in {"", "failed to create http client", "failed to create discovery client"} :
          IF built = ""
          THEN RetryDo("StorageTypes")
          ELSE /\ gate' = "StorageTypes"
               /\ gpc' = "returned"
               /\ gateErr' = Err(built, "rest config", 0)
               /\ UNCHANGED <<n, calls, fails, oks, lastErr, sel, delay, sleepCancel>>
    /\ UNCHANGED <<envVars, auxVars, runVars, poolVars, srvVars>>

\* retry.Do invokes the probe.
ProbeStart ==
    /\ gpc = "attempt"
    /\ gpc' = "probing"
    /\ calls' = calls + 1
    /\ UNCHANGED <<gate, n, fails, oks, lastErr, gateErr, sel, delay, sleepCancel>>
    /\ UNCHANGED <<envVars, auxVars, runVars, poolVars, srvVars>>

\* A retry loop that does not stop at the probe's success.
ProbeOkRetries ==
    /\ gpc' = "attempt"
    /\ oks' = oks + 1
    /\ gateErr' = Nil
    /\ UNCHANGED <<gate, n, calls, fails, lastErr, sel, delay, sleepCancel>>

\* The probe returned nil: retry.Do returns nil at once.
ProbeOk ==
    /\ gpc' = "returned"
    /\ oks' = oks + 1
    /\ gateErr' = Nil
    /\ UNCHANGED <<gate, n, calls, fails, lastErr, sel, delay, sleepCancel>>

\* The probe returned an error with this cause: retry.Do logs it, returns the
\* error LastErrorOnly selects after the last attempt, and sleeps otherwise.
\* The select of the sleep takes the context's case when it is already done.
ProbeErr(cause) ==
    LET e == Err(TimeoutLabel(gate), cause, calls)
    IN  /\ fails' = fails + 1
        /\ lastErr' = e
        /\ IF LastAttempt(n)
           THEN /\ gpc' = "returned"
                /\ gateErr' = LastErrorOnly(e)
                /\ UNCHANGED <<sel, delay>>
           ELSE /\ gpc' = "select"
                /\ delay' = BackOffDelay(n)
                /\ sel' = SelectContext("none", ctxCancelled)
                /\ UNCHANGED gateErr
        /\ UNCHANGED <<gate, n, calls, oks, sleepCancel>>

\* db.Ping(ctx) returns (bootstrap.go:91): it acquires a connection of the pool.
PingEnd ==
    /\ gpc = "probing"
    /\ gate = "Postgres"
    /\ LET r == Acquire(ctxCancelled, config, conn, caFile, dbUp, serverMode, serverIssuer)
       IN  /\ PoolAfter(r)
           /\ IF r.err = "" THEN ProbeOk ELSE ProbeErr(r.err)
    /\ UNCHANGED <<envVars, auxVars, runVars, srvVars>>

\* The JetStream or discovery probe returns (bootstrap.go:32-39, 55-74).
ProbeEnd ==
    /\ gpc = "probing"
    /\ gate \in {"JetStream", "StorageTypes"}
    /\ \/ ProbeOk
       \/ \E cause \in ProbeFailures(gate) : ProbeErr(cause)
    /\ UNCHANGED <<envVars, auxVars, runVars, poolVars, srvVars>>

\* The sleep's timer fires before the context is done.
TimerFire ==
    /\ gpc = "select"
    /\ sel = "none"
    /\ sel' = "timer"
    /\ UNCHANGED <<gate, gpc, n, calls, fails, oks, lastErr, gateErr, delay, sleepCancel>>
    /\ UNCHANGED <<envVars, auxVars, runVars, poolVars, srvVars>>

\* The gate's goroutine resumes from the select: after the timer it counts the
\* attempt and retries; after the context's Done it returns the context's error.
SelectWake ==
    /\ gpc = "select"
    /\ sel # "none"
    /\ IF sel = "timer"
       THEN /\ n' = n + 1
            /\ gpc' = "attempt"
            /\ UNCHANGED gateErr
       ELSE /\ gpc' = "returned"
            /\ gateErr' = Err(TimeoutLabel(gate), "context canceled", 0)
            /\ UNCHANGED n
    /\ sel' = "none"
    /\ UNCHANGED <<gate, calls, fails, oks, lastErr, delay, sleepCancel>>
    /\ UNCHANGED <<envVars, auxVars, runVars, poolVars, srvVars>>

\* The shutdown signal (or, for a gate's caller, the cancellation of its
\* context): a sleep in progress whose timer has not fired takes the Done case.
Cancel ==
    /\ ~ctxCancelled
    /\ pc \notin {"start", "ParseLogLevel", "main", "exited"}
    /\ ctxCancelled' = TRUE
    /\ IF gpc = "select" /\ sel = "none"
       THEN sel' = SelectContext(sel, TRUE) /\ sleepCancel' = calls
       ELSE UNCHANGED <<sel, sleepCancel>>
    /\ UNCHANGED <<gate, gpc, n, calls, fails, oks, lastErr, gateErr, delay>>
    /\ UNCHANGED <<envVars, auxVars, initFlag, pc, runErr, exitCode, poolVars, srvVars>>

\* ------------------------------------------------------------------------
\* Environment
\* ------------------------------------------------------------------------
\* The CA file is replaced on disk.
ReplaceCAFile ==
    /\ pool = "open"
    /\ pc # "deferred"
    /\ \E c \in CAFileContents : c # caFile /\ caFile' = c
    /\ UNCHANGED <<auxVars, uriFile, certFiles, dbUp, serverMode, serverIssuer, tables>>
    /\ UNCHANGED <<runVars, poolVars, gateVars, srvVars>>

\* The database server becomes reachable or unreachable.
DatabaseFlip ==
    /\ pool = "open"
    /\ pc # "deferred"
    /\ dbUp' = ~dbUp
    /\ UNCHANGED <<auxVars, uriFile, caFile, certFiles, serverMode, serverIssuer, tables>>
    /\ UNCHANGED <<runVars, poolVars, gateVars, srvVars>>

\* The database server's certificate is reissued by the other CA.
RotateServerCert ==
    /\ pool = "open"
    /\ pc # "deferred"
    /\ \E ca \in CAs : ca # serverIssuer /\ serverIssuer' = ca
    /\ UNCHANGED <<auxVars, uriFile, caFile, certFiles, dbUp, serverMode, tables>>
    /\ UNCHANGED <<runVars, poolVars, gateVars, srvVars>>

\* ------------------------------------------------------------------------
\* newDB (main.go:96-140)
\* ------------------------------------------------------------------------
\* The errors BeforeConnect returns for the CA file (main.go:114-122).
CAFileErrors ==
    {"reading database server CA certificate",
     "appending database server CA certificate to pool"}

\* A factory that loads the CA file itself before it builds the pool.
newDBReadsCA(file) ==
    IF file.state = "missing" THEN [err |-> "reading database URI", config |-> EmptyConfig]
    ELSE IF file.state = "invalid" THEN [err |-> "parsing database URI", config |-> EmptyConfig]
    ELSE IF ~caFile.readable
    THEN [err |-> "reading database server CA certificate", config |-> EmptyConfig]
    ELSE IF ~AppendCertsFromPEM(caFile)
    THEN [err |-> "appending database server CA certificate to pool", config |-> EmptyConfig]
    ELSE [err |-> "", config |-> ParseConfig(file)]

\* newDB reads and parses the URI file and builds the pool around the parsed
\* configuration and the BeforeConnect callback. It opens no connection and
\* does not read the CA file: the pool connects when it is first used.
newDB(file) ==
    IF file.state = "missing" THEN [err |-> "reading database URI", config |-> EmptyConfig]
    ELSE IF file.state = "invalid" THEN [err |-> "parsing database URI", config |-> EmptyConfig]
    ELSE [err |-> "", config |-> ParseConfig(file)]

\* ------------------------------------------------------------------------
\* The serving certificate provider (part_001:102-109, 119, 208)
\* ------------------------------------------------------------------------
\* tls.X509KeyPair: the key belongs to the certificate.
X509KeyPair(cert, key) ==
    \/ cert = "certA" /\ key = "keyA"
    \/ cert = "certB" /\ key = "keyB"

\* A reload that drops the held pair when the files cannot be loaded.
loadCertKeyPairOrNothing(files, held) ==
    IF files.readable /\ X509KeyPair(files.cert, files.key)
    THEN [err |-> "", current |-> files]
    ELSE [err |-> "load failed", current |-> NoPair]

\* A load that reports no error when the files cannot be loaded.
loadCertKeyPairSilent(files, held) ==
    IF files.readable /\ X509KeyPair(files.cert, files.key)
    THEN [err |-> "", current |-> files]
    ELSE [err |-> "", current |-> held]

\* DynamicCertKeyPairContent.loadCertKeyPair on the files' content, holding
\* held: an unreadable or unparseable pair is an error and leaves held alone.
loadCertKeyPair(files, held) ==
    IF ~files.readable THEN [err |-> "reading cert or key file", current |-> held]
    ELSE IF ~X509KeyPair(files.cert, files.key)
    THEN [err |-> "private key does not match public key", current |-> held]
    ELSE [err |-> "", current |-> files]

\* The failures of NewStorageAPIServer after the provider is built.
BuildFailures ==
    {"failed to set feature gate", "error applying options to server config",
     "error creating generic server", "error creating Image store",
     "error creating SBOM store", "error creating VulnerabilityReport store",
     "error installing API group"}

\* ------------------------------------------------------------------------
\* main and run (main.go:24-94), runServer, RunMigrations
\* ------------------------------------------------------------------------
\* A return of run that leaves the pool to the exit of the process.
ReturnWithoutClose(err) ==
    /\ runErr' = err
    /\ pc' = "main"

\* run returns err: db.Close is deferred once newDB has returned the pool.
Return(err) ==
    /\ runErr' = err
    /\ pc' = IF pool = "open" THEN "deferred" ELSE "main"

\* A branch that waits for the database in both modes.
AfterNewDBAlwaysWaits(init) == "WaitForPostgres"

\* A branch that tests the flag the wrong way round.
AfterNewDBInverted(init) == IF init THEN "runServer" ELSE "WaitForPostgres"

\* Where run goes once newDB has returned the pool (main.go:73, 89): to the
\* readiness gate and the migrations under --init, to runServer otherwise.
AfterNewDB(init) == IF init THEN "WaitForPostgres" ELSE "runServer"

\* A run that goes on to runServer after the migrations.
AfterMigrationsServes == pc' = "runServer" /\ UNCHANGED runErr

\* run after RunMigrations returned nil (main.go:84-86): return nil.
AfterMigrations == Return(Nil)

\* flag.Parse, ParseLogLevel, the logger and the signal context (main.go:42-65).
ParseFlags ==
    /\ pc = "ParseLogLevel"
    /\ \E valid \in BOOLEAN :
          IF valid
          THEN pc' = "newDB" /\ UNCHANGED runErr
          ELSE Return(Err("parsing log level", "unknown level", 0))
    /\ UNCHANGED <<initFlag, ctxCancelled, exitCode>>
    /\ UNCHANGED <<envVars, auxVars, poolVars, gateVars, srvVars>>

\* db, err := newDB(...) and the branch on init (main.go:67-73, 89).
NewDB ==
    /\ pc = "newDB"
    /\ LET r == newDB(uriFile)
       IN  IF r.err # ""
           THEN /\ Return(Err("connecting to database", r.err, 0))
                /\ UNCHANGED poolVars
           ELSE /\ pool' = "open"
                /\ config' = r.config
                /\ pc' = AfterNewDB(initFlag)
                /\ UNCHANGED <<runErr, closeCount, conn, lastDial, caAtDial, caAtPrevDial>>
    /\ UNCHANGED <<initFlag, ctxCancelled, exitCode>>
    /\ UNCHANGED <<envVars, auxVars, gateVars, srvVars>>

\* A run that goes on to the migrations whatever WaitForPostgres returned.
AfterWaitForPostgresUnchecked ==
    /\ pc = "WaitForPostgres"
    /\ gpc = "returned"
    /\ pc' = "RunMigrations"
    /\ UNCHANGED <<initFlag, ctxCancelled, runErr, exitCode>>
    /\ UNCHANGED <<envVars, auxVars, poolVars, gateVars, srvVars>>

\* WaitForPostgres has returned to run (main.go:76-80).
AfterWaitForPostgres ==
    /\ pc = "WaitForPostgres"
    /\ gpc = "returned"
    /\ IF gateErr # Nil
       THEN Return(Err("error waiting for postgres", gateErr.label, gateErr.at))
       ELSE pc' = "RunMigrations" /\ UNCHANGED runErr
    /\ UNCHANGED <<initFlag, ctxCancelled, exitCode>>
    /\ UNCHANGED <<envVars, auxVars, poolVars, gateVars, srvVars>>

\* The effect of one of the three CREATE statements on the schema: the table
\* is created when it is absent, and the statement succeeds either way.
CreateTable(schema, t) ==
    [err |-> IF t \in schema THEN "relation already exists" ELSE "",
     tables |-> schema \cup {t}]

CreateTableIfNotExists(schema, t) == [err |-> "", tables |-> schema \cup {t}]

\* A migration that logs a failed statement and goes on with the next one.
RunMigrationsSkipsFailures ==
    /\ pc = "RunMigrations"
    /\ LET i == Len(executed) + 1
           r == Acquire(ctxCancelled, config, conn, caFile, dbUp, serverMode, serverIssuer)
           x == CreateTableIfNotExists(tables, Statements[i])
       IN  /\ PoolAfter(r)
           /\ executed' = Append(executed, Statements[i])
           /\ \E rejected \in BOOLEAN :
                 /\ tables' = IF r.err # "" \/ rejected \/ x.err # ""
                              THEN tables ELSE x.tables
                 /\ IF i = Len(Statements)
                    THEN AfterMigrations
                    ELSE UNCHANGED <<pc, runErr>>
    /\ UNCHANGED <<initFlag, ctxCancelled, exitCode>>
    /\ UNCHANGED <<auxVars, uriFile, caFile, certFiles, dbUp, serverMode, serverIssuer>>
    /\ UNCHANGED <<gateVars, srv, listening, current, certLog, health>>

\* One db.Exec of RunMigrations (main.go:165-177), and run's return after the
\* last one (main.go:81-86). The statement is sent over a connection of the
\* pool; the database can reject it. The error run returns names the
\* statement by its position and carries the cause of the failure.
RunMigrations ==
    /\ pc = "RunMigrations"
    /\ LET i == Len(executed) + 1
           r == Acquire(ctxCancelled, config, conn, caFile, dbUp, serverMode, serverIssuer)
           x == CreateTableIfNotExists(tables, Statements[i])
       IN  /\ PoolAfter(r)
           /\ executed' = Append(executed, Statements[i])
           /\ \E rejected \in BOOLEAN :
                 LET cause == IF r.err # "" THEN r.err
                              ELSE IF rejected THEN "statement rejected"
                              ELSE x.err
                 IN  IF cause # ""
                     THEN /\ Return(Err("running migrations", cause, i))
                          /\ UNCHANGED tables
                     ELSE /\ tables' = x.tables
                          /\ IF i = Len(Statements)
                             THEN AfterMigrations
                             ELSE UNCHANGED <<pc, runErr>>
    /\ UNCHANGED <<initFlag, ctxCancelled, exitCode>>
    /\ UNCHANGED <<auxVars, uriFile, caFile, certFiles, dbUp, serverMode, serverIssuer>>
    /\ UNCHANGED <<gateVars, srv, listening, current, certLog, health>>

\* runServer calls NewStorageAPIServer (main.go:143-146, part_001:100-202).
NewStorageAPIServer ==
    /\ pc = "runServer"
    /\ LET l == loadCertKeyPair(certFiles, NoPair)
       IN  IF l.err # ""
           THEN /\ Return(Err("running server",
                              "error creating dynamic certificate content provider", 0))
                /\ UNCHANGED <<srv, current>>
           ELSE /\ current' = l.current
                /\ \E f \in {""} \cup BuildFailures :
                      IF f = ""
                      THEN srv' = "created" /\ pc' = "Start" /\ UNCHANGED runErr
                      ELSE Return(Err("running server", f, 0)) /\ UNCHANGED srv
    /\ UNCHANGED <<initFlag, ctxCancelled, exitCode>>
    /\ UNCHANGED <<envVars, auxVars, poolVars, gateVars, executed, listening, certLog, health>>

\* srv.Start (main.go:148-151, part_001:204-215): the certificate controller
\* is started and the server runs, unless it fails to.
Start ==
    /\ pc = "Start"
    /\ \E ok \in BOOLEAN :
          IF ok
          THEN listening' = TRUE /\ pc' = "serving" /\ UNCHANGED runErr
          ELSE Return(Err("running server", "error running server", 0))
               /\ UNCHANGED listening
    /\ UNCHANGED <<initFlag, ctxCancelled, exitCode>>
    /\ UNCHANGED <<envVars, auxVars, poolVars, gateVars, executed, srv, current, certLog, health>>

\* RunWithContext returns nil after the context is done (part_001:210-214).
Shutdown ==
    /\ pc = "serving"
    /\ ctxCancelled
    /\ listening' = FALSE
    /\ Return(Nil)
    /\ UNCHANGED <<initFlag, ctxCancelled, exitCode>>
    /\ UNCHANGED <<envVars, auxVars, poolVars, gateVars, executed, srv, current, certLog, health>>

\* The provider publishes a loaded pair: atomic.Value.Store of the whole pair.
StoreCertOnly(held, loaded) == [loaded EXCEPT !.key = held.key]

Store(held, loaded) == loaded

\* One refresh of the certificate controller started by Start (part_001:208).
RefreshTick ==
    /\ pc = "serving"
    /\ ~ctxCancelled
    /\ LET l == loadCertKeyPair(certFiles, current)
       IN  /\ current' = Store(current, l.current)
           /\ certLog' = IF l.err # "" THEN "error"
                         ELSE IF l.current # current THEN "loaded" ELSE certLog
    /\ UNCHANGED <<envVars, auxVars, runVars, poolVars, gateVars, executed, srv, listening, health>>

\* The same refresh in the steps of loadCertKeyPair: it reads the certificate
\* file, then the key file, then checks the pair and publishes it. The files
\* can be replaced between the steps, and handshakes read the provider's pair
\* at any time.
RefreshReadCert ==
    /\ pc = "serving"
    /\ ~ctxCancelled
    /\ rpc = "idle"
    /\ IF certFiles.readable
       THEN /\ rbuf' = [readable |-> TRUE, cert |-> certFiles.cert, key |-> ""]
            /\ rpc' = "readKey"
            /\ UNCHANGED certLog
       ELSE /\ certLog' = "error"
            /\ UNCHANGED <<rpc, rbuf>>
    /\ UNCHANGED <<envVars, runVars, poolVars, gateVars>>
    /\ UNCHANGED <<executed, srv, listening, current, health, checkVars, served, histVars>>

RefreshReadKey ==
    /\ pc = "serving"
    /\ rpc = "readKey"
    /\ IF certFiles.readable
       THEN /\ rbuf' = [rbuf EXCEPT !.key = certFiles.key]
            /\ rpc' = "loaded"
            /\ UNCHANGED certLog
       ELSE /\ certLog' = "error"
            /\ rbuf' = NoPair
            /\ rpc' = "idle"
    /\ UNCHANGED <<envVars, runVars, poolVars, gateVars>>
    /\ UNCHANGED <<executed, srv, listening, current, health, checkVars, served, histVars>>

RefreshStore ==
    /\ pc = "serving"
    /\ rpc = "loaded"
    /\ LET l == loadCertKeyPair(rbuf, current)
       IN  /\ current' = IF l.err = "" THEN Store(current, l.current) ELSE current
           /\ certLog' = IF l.err # "" THEN "error"
                         ELSE IF l.current # current THEN "loaded" ELSE certLog
    /\ rbuf' = NoPair
    /\ rpc' = "idle"
    /\ UNCHANGED <<envVars, runVars, poolVars, gateVars>>
    /\ UNCHANGED <<executed, srv, listening, health, checkVars, served, histVars>>

\* A TLS handshake of the listener obtains the provider's current pair.
Handshake ==
    /\ pc = "serving"
    /\ listening
    /\ served' = current
    /\ UNCHANGED <<envVars, runVars, poolVars, gateVars, srvVars>>
    /\ UNCHANGED <<checkVars, rpc, rbuf, histVars>>

\* context.WithTimeout(parent, d): the earlier of the parent's deadline and d.
WithTimeoutOfParent(parent, d) == IF parent = 0 THEN d ELSE parent

WithTimeout(parent, d) == IF parent = 0 THEN d ELSE Min(parent, d)

\* databaseChecker.Check (part_001:34-44): one d.db.Ping under the request's
\* context bounded by CheckTimeout. A ping the database has not answered at
\* the deadline returns the context's error and its connection is dropped.
Check ==
    /\ pc = "serving"
    /\ listening
    /\ \E reqDeadline \in ReqDeadlines, latency \in Latencies :
          LET d == WithTimeout(reqDeadline, CheckTimeout)
              r == Acquire(FALSE, config, conn, caFile, dbUp, serverMode, serverIssuer)
              p == IF r.err = "" /\ latency > d
                   THEN [r EXCEPT !.err = "context deadline exceeded", !.conn = NoConn]
                   ELSE r
          IN  /\ PoolAfter(p)
              /\ health' = IF p.err = "" THEN "healthy" ELSE "error"
              /\ lastCheck' = [pings |-> 1, deadline |-> d,
                               elapsed |-> IF r.err = "" THEN Min(latency, d) ELSE 0]
    /\ UNCHANGED <<envVars, runVars, gateVars, executed, srv, listening, current, certLog>>
    /\ UNCHANGED <<certVars, histVars>>

\* A request served by one of the stores built on the pool (part_001:165-183).
StoreRequest ==
    /\ pc = "serving"
    /\ listening
    /\ PoolAfter(Acquire(FALSE, config, conn, caFile, dbUp, serverMode, serverIssuer))
    /\ UNCHANGED <<envVars, auxVars, runVars, gateVars, srvVars>>

\* The deferred db.Close (main.go:71).
DeferClose ==
    /\ pc = "deferred"
    /\ pool' = "closed"
    /\ closeCount' = closeCount + 1
    /\ conn' = NoConn
    /\ pc' = "main"
    /\ UNCHANGED <<config, lastDial, caAtDial, caAtPrevDial>>
    /\ UNCHANGED <<initFlag, ctxCancelled, runErr, exitCode>>
    /\ UNCHANGED <<envVars, auxVars, gateVars, srvVars>>

\* The command is run again against the same database and the same files,
\* as a restarted initialization job is: a new process, nothing kept but the
\* environment.
Restart ==
    /\ pc = "exited"
    /\ runs < MaxRuns
    /\ runs' = runs + 1
    /\ prevExit' = exitCode
    /\ prevTables' = tables
    /\ pc' = "ParseLogLevel"
    /\ ctxCancelled' = FALSE
    /\ runErr' = Nil
    /\ exitCode' = -1
    /\ pool' = "none"
    /\ closeCount' = 0
    /\ config' = EmptyConfig
    /\ conn' = NoConn
    /\ lastDial' = NoDial
    /\ caAtDial' = NoCA
    /\ caAtPrevDial' = NoCA
    /\ gate' = ""
    /\ gpc' = "idle"
    /\ n' = 0
    /\ calls' = 0
    /\ fails' = 0
    /\ oks' = 0
    /\ lastErr' = Nil
    /\ gateErr' = Nil
    /\ sel' = "none"
    /\ delay' = 0
    /\ sleepCancel' = -1
    /\ executed' = <<>>
    /\ UNCHANGED <<envVars, initFlag, srv, listening, current, certLog, health>>
    /\ UNCHANGED <<checkVars, certVars>>

\* A main that logs run's error and returns normally.
MainLogsOnly ==
    /\ pc = "main"
    /\ exitCode' = 0
    /\ pc' = "exited"
    /\ UNCHANGED <<initFlag, ctxCancelled, runErr>>
    /\ UNCHANGED <<envVars, auxVars, poolVars, gateVars, srvVars>>

\* main (main.go:24-30): os.Exit(1) on an error, exit code 0 otherwise.
Main ==
    /\ pc = "main"
    /\ exitCode' = IF runErr # Nil THEN 1 ELSE 0
    /\ pc' = "exited"
    /\ UNCHANGED <<initFlag, ctxCancelled, runErr>>
    /\ UNCHANGED <<envVars, auxVars, poolVars, gateVars, srvVars>>

\* A second shutdown signal: the handler of SetupSignalContext (main.go:65)
\* exits the process with code 1 at once.
SecondSignal ==
    /\ ctxCancelled
    /\ pc \notin {"ParseLogLevel", "exited"}
    /\ exitCode' = 1
    /\ pc' = "exited"
    /\ listening' = FALSE
    /\ UNCHANGED <<initFlag, ctxCancelled, runErr>>
    /\ UNCHANGED <<envVars, auxVars, poolVars, gateVars, executed, srv, current, certLog, health>>

\* The serving certificate and key files are replaced on disk.
ReplaceCertFiles ==
    /\ pc \in {"runServer", "Start", "serving"}
    /\ \E c \in PairContents : c # certFiles /\ certFiles' = c
    /\ UNCHANGED <<auxVars, uriFile, caFile, dbUp, serverMode, serverIssuer, tables>>
    /\ UNCHANGED <<runVars, poolVars, gateVars, srvVars>>

\* The pool's idle connection is dropped (by the server, or recycled).
ConnDrop ==
    /\ pool = "open"
    /\ pc # "deferred"
    /\ conn.open
    /\ conn' = NoConn
    /\ UNCHANGED <<pool, closeCount, config, lastDial, caAtDial, caAtPrevDial>>
    /\ UNCHANGED <<envVars, auxVars, runVars, gateVars, srvVars>>

\* ------------------------------------------------------------------------
\* The storage command
\* ------------------------------------------------------------------------
StartupURIFiles ==
    {[state |-> "missing", hosts |-> <<>>, sslmode |-> ""],
     [state |-> "invalid", hosts |-> <<>>, sslmode |-> ""],
     [state |-> "ok", hosts |-> <<"db">>, sslmode |-> "disable"]}

Init ==
    /\ uriFile \in StartupURIFiles
    /\ caFile \in CAFileContents
    /\ certFiles = [readable |-> TRUE, cert |-> "certA", key |-> "keyA"]
    /\ dbUp \in BOOLEAN
    /\ serverMode = "tls"
    /\ serverIssuer = "CA1"
    /\ tables = {}
    /\ initFlag \in BOOLEAN
    /\ pc = "ParseLogLevel"
    /\ ctxCancelled = FALSE
    /\ runErr = Nil
    /\ exitCode = -1
    /\ pool = "none"
    /\ closeCount = 0
    /\ config = EmptyConfig
    /\ conn = NoConn
    /\ lastDial = NoDial
    /\ caAtDial = NoCA
    /\ caAtPrevDial = NoCA
    /\ gate = ""
    /\ gpc = "idle"
    /\ n = 0
    /\ calls = 0
    /\ fails = 0
    /\ oks = 0
    /\ lastErr = Nil
    /\ gateErr = Nil
    /\ sel = "none"
    /\ delay = 0
    /\ sleepCancel = -1
    /\ executed = <<>>
    /\ srv = "none"
    /\ listening = FALSE
    /\ current = NoPair
    /\ certLog = ""
    /\ health = ""
    /\ lastCheck = NoCheck
    /\ rpc = "idle"
    /\ rbuf = NoPair
    /\ served = NoPair
    /\ runs = 1
    /\ prevExit = -1
    /\ prevTables = {}

Next ==
    \/ ParseFlags
    \/ NewDB
    \/ WaitForPostgres
    \/ ProbeStart
    \/ PingEnd
    \/ TimerFire
    \/ SelectWake
    \/ AfterWaitForPostgres
    \/ RunMigrations
    \/ NewStorageAPIServer
    \/ Start
    \/ Shutdown
    \/ RefreshTick
    \/ Check
    \/ StoreRequest
    \/ DeferClose
    \/ Main
    \/ Cancel
    \/ SecondSignal
    \/ ReplaceCAFile
    \/ DatabaseFlip
    \/ RotateServerCert
    \/ ReplaceCertFiles
    \/ ConnDrop

Spec == Init /\ [][Next]_vars

\* ------------------------------------------------------------------------
\* The pool of the serving command, for every content of the URI file and
\* every database server, with the serving certificate left alone
\* ------------------------------------------------------------------------
PoolInit ==
    /\ uriFile \in URIFileContents
    /\ caFile \in CAFileContents
    /\ certFiles = [readable |-> TRUE, cert |-> "certA", key |-> "keyA"]
    /\ dbUp \in BOOLEAN
    /\ serverMode \in {"tls", "plain", "both"}
    /\ serverIssuer \in CAs
    /\ tables = {}
    /\ initFlag = FALSE
    /\ pc = "newDB"
    /\ ctxCancelled = FALSE
    /\ runErr = Nil
    /\ exitCode = -1
    /\ pool = "none"
    /\ closeCount = 0
    /\ config = EmptyConfig
    /\ conn = NoConn
    /\ lastDial = NoDial
    /\ caAtDial = NoCA
    /\ caAtPrevDial = NoCA
    /\ gate = ""
    /\ gpc = "idle"
    /\ n = 0
    /\ calls = 0
    /\ fails = 0
    /\ oks = 0
    /\ lastErr = Nil
    /\ gateErr = Nil
    /\ sel = "none"
    /\ delay = 0
    /\ sleepCancel = -1
    /\ executed = <<>>
    /\ srv = "none"
    /\ listening = FALSE
    /\ current = NoPair
    /\ certLog = ""
    /\ health = ""
    /\ lastCheck = NoCheck
    /\ rpc = "idle"
    /\ rbuf = NoPair
    /\ served = NoPair
    /\ runs = 1
    /\ prevExit = -1
    /\ prevTables = {}

PoolNext ==
    \/ NewDB
    \/ NewStorageAPIServer
    \/ Start
    \/ Check
    \/ StoreRequest
    \/ ConnDrop
    \/ ReplaceCAFile
    \/ DatabaseFlip
    \/ RotateServerCert
    \/ Cancel
    \/ Shutdown
    \/ DeferClose
    \/ Main

PoolSpec == PoolInit /\ [][PoolNext]_vars

\* ------------------------------------------------------------------------
\* The readiness gates on their own, called with a live or a done context
\* ------------------------------------------------------------------------
GateURIs == {[state |-> "ok", hosts |-> <<"db">>, sslmode |-> ""]}

GateInit ==
    /\ uriFile \in GateURIs
    /\ caFile \in CAFileContents
    /\ certFiles = NoPair
    /\ dbUp \in BOOLEAN
    /\ serverMode \in {"tls", "plain"}
    /\ serverIssuer = "CA1"
    /\ tables = {}
    /\ initFlag = FALSE
    /\ pc = "caller"
    /\ ctxCancelled \in BOOLEAN
    /\ runErr = Nil
    /\ exitCode = -1
    /\ pool = "open"
    /\ closeCount = 0
    /\ config = ParseConfig(uriFile)
    /\ conn = NoConn
    /\ lastDial = NoDial
    /\ caAtDial = NoCA
    /\ caAtPrevDial = NoCA
    /\ gate = ""
    /\ gpc = "idle"
    /\ n = 0
    /\ calls = 0
    /\ fails = 0
    /\ oks = 0
    /\ lastErr = Nil
    /\ gateErr = Nil
    /\ sel = "none"
    /\ delay = 0
    /\ sleepCancel = -1
    /\ executed = <<>>
    /\ srv = "none"
    /\ listening = FALSE
    /\ current = NoPair
    /\ certLog = ""
    /\ health = ""
    /\ lastCheck = NoCheck
    /\ rpc = "idle"
    /\ rbuf = NoPair
    /\ served = NoPair
    /\ runs = 1
    /\ prevExit = -1
    /\ prevTables = {}

GateNext ==
    \/ WaitForPostgres
    \/ WaitForJetStream
    \/ WaitForStorageTypes
    \/ ProbeStart
    \/ PingEnd
    \/ ProbeEnd
    \/ TimerFire
    \/ SelectWake
    \/ Cancel
    \/ ReplaceCAFile
    \/ DatabaseFlip
    \/ RotateServerCert

GateSpec == GateInit /\ [][GateNext]_vars

\* The URI file of a deployment whose files are in order.
CertURI == [state |-> "ok", hosts |-> <<"db">>, sslmode |-> "disable"]

\* ------------------------------------------------------------------------
\* The initialization command run MaxRuns times in succession against one
\* database, with the URI and CA files in order
\* ------------------------------------------------------------------------
MigrateInit ==
    /\ uriFile = CertURI
    /\ caFile = [readable |-> TRUE, certs |-> {"CA1"}]
    /\ certFiles = [readable |-> TRUE, cert |-> "certA", key |-> "keyA"]
    /\ dbUp \in BOOLEAN
    /\ serverMode = "tls"
    /\ serverIssuer = "CA1"
    /\ tables = {}
    /\ initFlag = TRUE
    /\ pc = "ParseLogLevel"
    /\ ctxCancelled = FALSE
    /\ runErr = Nil
    /\ exitCode = -1
    /\ pool = "none"
    /\ closeCount = 0
    /\ config = EmptyConfig
    /\ conn = NoConn
    /\ lastDial = NoDial
    /\ caAtDial = NoCA
    /\ caAtPrevDial = NoCA
    /\ gate = ""
    /\ gpc = "idle"
    /\ n = 0
    /\ calls = 0
    /\ fails = 0
    /\ oks = 0
    /\ lastErr = Nil
    /\ gateErr = Nil
    /\ sel = "none"
    /\ delay = 0
    /\ sleepCancel = -1
    /\ executed = <<>>
    /\ srv = "none"
    /\ listening = FALSE
    /\ current = NoPair
    /\ certLog = ""
    /\ health = ""
    /\ lastCheck = NoCheck
    /\ rpc = "idle"
    /\ rbuf = NoPair
    /\ served = NoPair
    /\ runs = 1
    /\ prevExit = -1
    /\ prevTables = {}

MigrateNext ==
    \/ ParseFlags
    \/ NewDB
    \/ WaitForPostgres
    \/ ProbeStart
    \/ PingEnd
    \/ TimerFire
    \/ SelectWake
    \/ AfterWaitForPostgres
    \/ RunMigrations
    \/ DeferClose
    \/ Main
    \/ Cancel
    \/ DatabaseFlip
    \/ Restart

MigrateSpec == MigrateInit /\ [][MigrateNext]_vars

\* ------------------------------------------------------------------------
\* The serving certificate of the serving command: the provider's refresh in
\* its steps, the files replaced on disk and the handshakes of the listener
\* ------------------------------------------------------------------------
CertInit ==
    /\ uriFile = CertURI
    /\ caFile \in CAFileContents
    /\ certFiles \in PairContents
    /\ dbUp = TRUE
    /\ serverMode = "tls"
    /\ serverIssuer = "CA1"
    /\ tables = {}
    /\ initFlag = FALSE
    /\ pc = "runServer"
    /\ ctxCancelled = FALSE
    /\ runErr = Nil
    /\ exitCode = -1
    /\ pool = "open"
    /\ closeCount = 0
    /\ config = ParseConfig(CertURI)
    /\ conn = NoConn
    /\ lastDial = NoDial
    /\ caAtDial = NoCA
    /\ caAtPrevDial = NoCA
    /\ gate = ""
    /\ gpc = "idle"
    /\ n = 0
    /\ calls = 0
    /\ fails = 0
    /\ oks = 0
    /\ lastErr = Nil
    /\ gateErr = Nil
    /\ sel = "none"
    /\ delay = 0
    /\ sleepCancel = -1
    /\ executed = <<>>
    /\ srv = "none"
    /\ listening = FALSE
    /\ current = NoPair
    /\ certLog = ""
    /\ health = ""
    /\ lastCheck = NoCheck
    /\ rpc = "idle"
    /\ rbuf = NoPair
    /\ served = NoPair
    /\ runs = 1
    /\ prevExit = -1
    /\ prevTables = {}

CertNext ==
    \/ NewStorageAPIServer
    \/ Start
    \/ RefreshReadCert
    \/ RefreshReadKey
    \/ RefreshStore
    \/ Handshake
    \/ ReplaceCertFiles
    \/ Cancel
    \/ Shutdown
    \/ DeferClose
    \/ Main

CertSpec == CertInit /\ [][CertNext]_vars

\* ------------------------------------------------------------------------
\* Properties of the readiness gates
\* ------------------------------------------------------------------------
\* C1: with no cancellation, a gate whose probe failed on every invocation
\* returns only after exactly Attempts invocations, and the error it returns
\* is the timeout error wrapping the failure of invocation Attempts.
C1_AlwaysFailingProbe ==
    (/\ gpc = "returned"
     /\ ~ctxCancelled
     /\ oks = 0
     /\ (calls > 0 \/ gateErr.label = TimeoutLabel(gate)))
    => /\ calls = Attempts
       /\ fails = Attempts
       /\ gateErr.label = TimeoutLabel(gate)
       /\ gateErr.at = Attempts
       /\ gateErr.cause = lastErr.cause
       /\ lastErr.at = Attempts

C1_Witness ==
    /\ gpc = "returned"
    /\ ~ctxCancelled
    /\ gate = "JetStream"
    /\ fails = Attempts
    /\ gateErr.cause = "failed to get JetStream account info"

\* C2: once an invocation of the probe has succeeded, it is the only
\* success, it is invocation fails + 1 <= Attempts, the gate has returned nil
\* and the probe is not invoked again; and a gate returns nil only so.
C2_SuccessOnAttemptK ==
    /\ oks >= 1 =>
          /\ oks = 1
          /\ gpc = "returned"
          /\ gateErr = Nil
          /\ calls = fails + 1
          /\ calls <= Attempts
    /\ (gpc = "returned" /\ gateErr = Nil) => oks = 1

C2_Witness ==
    /\ gpc = "returned"
    /\ ~ctxCancelled
    /\ gateErr = Nil
    /\ fails = Attempts - 1
    /\ calls = Attempts

\* C3: after the context is cancelled during a sleep between two attempts,
\* the sleep is over (its select has taken the Done case), the probe is not
\* invoked again and the gate returns the context's error.
C3_CancelDuringSleep ==
    sleepCancel # -1 =>
        /\ calls = sleepCancel
        /\ \/ gpc = "select" /\ sel = "done"
           \/ /\ gpc = "returned"
              /\ gateErr = Err(TimeoutLabel(gate), "context canceled", 0)

C3_Witness ==
    /\ sleepCancel # -1
    /\ gpc = "returned"
    /\ calls >= 2
    /\ delay = MaxDelay

\* ------------------------------------------------------------------------
\* Properties of the pool
\* ------------------------------------------------------------------------
\* C4: whatever the URI, every physical connection attempt of the pool uses
\* a connection configuration with TLS, no fallback, certificate verification
\* on, minimum version TLS 1.2 and the URI's (first) host as ServerName; and
\* no connection of the pool is ever established in cleartext.
C4_TLSEnforced ==
    /\ lastDial.dialed =>
          /\ lastDial.cfg.TLSConfig.enabled
          /\ lastDial.cfg.Fallbacks = <<>>
          /\ ~lastDial.cfg.TLSConfig.InsecureSkipVerify
          /\ lastDial.cfg.TLSConfig.MinVersion = VersionTLS12
          /\ lastDial.cfg.TLSConfig.ServerName = uriFile.hosts[1]
          /\ lastDial.cfg.Host = uriFile.hosts[1]
    /\ conn.open => conn.tls

C4_Witness ==
    /\ lastDial.dialed
    /\ conn.open
    /\ uriFile.sslmode = "disable"
    /\ uriFile.hosts = <<"db", "alt">>
    /\ serverMode = "both"

\* C5: the trust pool of every connection attempt holds exactly the
\* certificates of the CA file on disk at that attempt, and a connection is
\* opened only to a server whose certificate a CA of that file issued.
C5_CAReloadedPerOpen ==
    [][/\ lastDial'.dialed =>
             /\ caAtDial'.readable
             /\ lastDial'.cfg.TLSConfig.RootCAs = caAtDial'.certs
       /\ (conn'.open /\ conn' # conn) =>
             /\ caAtDial' = caFile
             /\ conn'.RootCAs = caFile.certs
             /\ serverIssuer \in caFile.certs]_vars

C5_Witness ==
    /\ caAtPrevDial.certs = {"CA1"}
    /\ caAtDial.certs = {"CA2"}
    /\ caFile.certs = {"CA2"}
    /\ lastDial.cfg.TLSConfig.RootCAs = {"CA2"}
    /\ serverIssuer = "CA1"
    /\ ~conn.open
    /\ health = "error"

\* ------------------------------------------------------------------------
\* Properties of the serving certificate provider
\* ------------------------------------------------------------------------
ValidPair(p) == p.readable /\ X509KeyPair(p.cert, p.key)

\* C6: a refresh with a valid pair on disk makes that pair the current one;
\* a refresh with an unreadable or unparseable pair on disk keeps the current
\* pair, logs an error and leaves the listener serving; and the listener
\* never serves without a valid current pair.
C6_ServingCertRefresh ==
    [][/\ RefreshTick =>
             IF ValidPair(certFiles)
             THEN current' = certFiles
             ELSE /\ current' = current
                  /\ certLog' = "error"
                  /\ listening' = listening
                  /\ pc' = "serving"
       /\ listening' => ValidPair(current')]_vars

C6_Witness ==
    /\ listening
    /\ current = [readable |-> TRUE, cert |-> "certB", key |-> "keyB"]
    /\ certFiles = [readable |-> TRUE, cert |-> "certA", key |-> "keyB"]
    /\ certLog = "error"

\* ------------------------------------------------------------------------
\* Properties of the startup sequence
\* ------------------------------------------------------------------------
\* C7: under --init, once WaitForPostgres has returned an error no migration
\* statement is ever executed; and when the ping failed on all Attempts
\* attempts the process exits with code 1, on the error of the timeout of
\* the Postgres gate (unless a second signal killed it first).
C7_InitTimeoutNoMigrations ==
    /\ (initFlag /\ gpc = "returned" /\ gateErr # Nil) =>
          /\ executed = <<>>
          /\ tables = {}
          /\ pc # "RunMigrations"
    /\ (initFlag /\ pc = "exited" /\ fails = Attempts) =>
          /\ exitCode = 1
          /\ ~ctxCancelled =>
                runErr = Err("error waiting for postgres", TimeoutLabel("Postgres"), Attempts)

C7_Witness ==
    /\ initFlag
    /\ pc = "exited"
    /\ fails = Attempts
    /\ ~ctxCancelled
    /\ exitCode = 1
    /\ executed = <<>>

\* C8: under --init the listener is never created nor started; a migration
\* statement is executed only after the Postgres gate returned nil; and the
\* process exits with code 0 only after all the statements were executed.
C8_InitNeverServes ==
    initFlag =>
        /\ srv = "none"
        /\ ~listening
        /\ current = NoPair
        /\ pc \notin {"runServer", "Start", "serving"}
        /\ executed # <<>> =>
              /\ gate = "Postgres"
              /\ gpc = "returned"
              /\ gateErr = Nil
              /\ oks = 1
        /\ (pc = "exited" /\ exitCode = 0) => executed = Statements

C8_Witness ==
    /\ initFlag
    /\ pc = "exited"
    /\ exitCode = 0
    /\ executed = Statements
    /\ fails > 0

\* C9 as stated: in serve mode the listener is started only after the
\* database readiness gate has returned success.
C9_GateBeforeListener ==
    (~initFlag /\ listening) =>
        /\ gate = "Postgres"
        /\ gpc = "returned"
        /\ gateErr = Nil
        /\ oks >= 1

\* C9 as amended: in serve mode no readiness gate is run and the database is
\* not probed before the listener is started; the listener is started once
\* newDB has returned the pool and NewStorageAPIServer the server.
C9_ServeModeRunsNoGate ==
    ~initFlag =>
        /\ gate = ""
        /\ gpc = "idle"
        /\ calls = 0
        /\ pc \in {"Start", "serving"} => (pool = "open" /\ srv = "created")
        /\ listening => pc = "serving"
        /\ pc \in {"newDB", "runServer", "Start"} => (~lastDial.dialed /\ ~conn.open)

C9_Witness ==
    /\ ~initFlag
    /\ listening
    /\ ~dbUp
    /\ ~lastDial.dialed
    /\ health = ""

\* C10 as stated: in serve mode the three tables are present when the
\* listener is started.
C10_MigrationsBeforeListener ==
    (~initFlag /\ listening) => tables = {"images", "sboms", "vulnerabilityreports"}

\* C10 as amended: the migration runner is invoked only under --init; in
\* serve mode no statement is executed, so a server started against a fresh
\* database serves with none of the three tables present.
C10_ServeModeRunsNoMigrations ==
    ~initFlag =>
        /\ executed = <<>>
        /\ tables = {}
        /\ pc # "RunMigrations"

C10_Witness ==
    /\ ~initFlag
    /\ listening
    /\ health = "healthy"
    /\ tables = {}
\* ------------------------------------------------------------------------
\* C11: RunMigrations executes the statements one after the other in the fixed
\* order images, sboms, vulnerability reports, each at most once in a run.
\* When a statement fails, no later statement is executed (nothing is retried
\* or skipped), run returns an error that wraps that failure, no server is
\* built, and the process exits with code 1.
\* ------------------------------------------------------------------------
C11_MigrationsStopAtFirstFailure ==
    /\ Len(executed) <= Len(Statements)
    /\ executed = SubSeq(Statements, 1, Len(executed))
    /\ IF runErr.label = "running migrations"
       THEN /\ pc \in {"deferred", "main", "exited"}
            /\ runErr.at = Len(executed)
            /\ runErr.cause # ""
            /\ tables = {Statements[j] : j \in 1..(runErr.at - 1)}
            /\ srv = "none"
            /\ ~listening
            /\ pc = "exited" => exitCode = 1
       ELSE tables = {executed[j] : j \in 1..Len(executed)}

C11_Witness ==
    /\ pc = "exited"
    /\ exitCode = 1
    /\ ~ctxCancelled
    /\ runErr = Err("running migrations", "statement rejected", 2)
    /\ executed = <<"images", "sboms">>
    /\ tables = {"images"}
    /\ closeCount = 1

\* ------------------------------------------------------------------------
\* C12: each health check makes exactly one ping of the database, under a
\* deadline of at most CheckTimeout seconds whatever deadline the caller's
\* request carries, and does not retry: a ping that fails or is not answered
\* at the deadline makes the check return an error, an answered ping makes it
\* return healthy. A failed check leaves the process running and listening.
\* ------------------------------------------------------------------------
C12_OnePingBoundedCheck ==
    [][Check =>
         /\ lastCheck'.pings = 1
         /\ lastCheck'.deadline \in 1..CheckTimeout
         /\ lastCheck'.elapsed <= lastCheck'.deadline
         /\ health' \in {"healthy", "error"}
         /\ health' = "healthy" =>
               (dbUp /\ conn'.open /\ lastCheck'.elapsed < lastCheck'.deadline)
         /\ (~dbUp \/ lastCheck'.elapsed = lastCheck'.deadline) => health' = "error"
         /\ pc' = "serving"
         /\ listening'
         /\ exitCode' = -1
         /\ runErr' = Nil]_vars

C12_Witness ==
    /\ pc = "serving"
    /\ listening
    /\ dbUp
    /\ health = "error"
    /\ lastCheck = [pings |-> 1, deadline |-> CheckTimeout, elapsed |-> CheckTimeout]
    /\ lastDial.dialed
    /\ ~conn.open

C15_BadFirstLoadAbortsServer ==
    [][/\ (NewStorageAPIServer /\ ~ValidPair(certFiles)) =>
             /\ runErr' = Err("running server",
                              "error creating dynamic certificate content provider", 0)
             /\ pc' = "deferred"
             /\ srv' = "none"
             /\ current' = NoPair
       /\ runErr.cause = "error creating dynamic certificate content provider" =>
             /\ runErr' = runErr
             /\ srv' = "none"
             /\ ~listening'
             /\ pc' \in {"deferred", "main", "exited"}
             /\ exitCode' = IF pc' = "exited" THEN 1 ELSE -1]_vars

C15_Witness ==
    /\ pc = "exited"
    /\ exitCode = 1
    /\ ~ctxCancelled
    /\ runErr.cause = "error creating dynamic certificate content provider"
    /\ ~certFiles.readable
    /\ srv = "none"
    /\ ~listening

\* ------------------------------------------------------------------------
\* C16: under every interleaving of the refresh of the provider, the
\* replacement of the files and the TLS handshakes, the pair a handshake
\* obtains is complete: the certificate and the key of one load (the pair
\* held before a refresh or the pair it loaded), never the certificate of one
\* load with the key of another.
\* ------------------------------------------------------------------------
C16_HandshakeReadsWholePair ==
    /\ served \in {NoPair} \cup {p \in PairContents : ValidPair(p)}
    /\ listening => ValidPair(current)
    /\ served # NoPair => srv = "created"

C16_Witness ==
    /\ listening
    /\ served = [readable |-> TRUE, cert |-> "certB", key |-> "keyB"]
    /\ current = served
    /\ rpc = "loaded"
    /\ rbuf = [readable |-> TRUE, cert |-> "certB", key |-> "keyA"]

\* ------------------------------------------------------------------------
\* C17: for each of the three gates the cancellation reaches the probe in
\* flight as well as the sleep: a probe that is in flight when the context is
\* done ends aborted by the context, with the context's error and never with
\* its own result, and the gate then returns without another attempt.
\* ------------------------------------------------------------------------
C17_CancellationAbortsProbe ==
    [][(gpc = "probing" /\ ctxCancelled /\ gpc' # "probing") =>
          /\ oks' = oks
          /\ lastErr'.cause = "context canceled"
          /\ gpc' = "returned" \/ (gpc' = "select" /\ sel' = "done")]_vars

\* ------------------------------------------------------------------------
\* C18: the sleeps of a gate start at Delay, double after each failed attempt
\* and never exceed MaxDelay: the sleep after the i-th failure lasts
\* min(Delay * 2^(i-1), MaxDelay) seconds, so the sleeps never shorten; and no
\* sleep follows the failure of the last permitted attempt.
\* ------------------------------------------------------------------------
C18_BackoffSchedule ==
    [][/\ gpc' = "select" =>
             /\ fails' \in 1..(Attempts - 1)
             /\ delay' = IF fails' = 1 THEN Delay
                         ELSE IF fails' = 2 THEN 2 * Delay
                         ELSE IF fails' = 3 THEN 4 * Delay
                         ELSE MaxDelay
       /\ delay' >= delay
       /\ delay' <= MaxDelay
       /\ fails' = Attempts => (gpc' = "returned" /\ delay' = delay)]_vars

C18_Witness ==
    /\ gate = "StorageTypes"
    /\ gpc = "select"
    /\ fails = Attempts - 1
    /\ delay = MaxDelay
    /\ sel = "none"

\* ------------------------------------------------------------------------
\* C19: RunMigrations is idempotent. A run of the initialization against the
\* database a successful run has migrated executes the same statements, none
\* of which fails because its table exists, and leaves the schema as the
\* first run left it: the three tables.
\* ------------------------------------------------------------------------
C19_MigrationsIdempotent ==
    /\ (pc = "exited" /\ exitCode = 0) => tables = AllTables
    /\ (runs >= 2 /\ prevExit = 0) =>
          /\ prevTables = AllTables
          /\ tables = prevTables
          /\ runErr.label = "running migrations" =>
                runErr.cause # "relation already exists"

C19_Witness ==
    /\ runs = 2
    /\ prevExit = 0
    /\ pc = "exited"
    /\ exitCode = 0
    /\ executed = Statements
    /\ tables = prevTables
    /\ tables = AllTables

\* ------------------------------------------------------------------------
\* C20: once newDB has returned the pool, every return of run (initialization
\* done, gate given up or cancelled, failed statement, server not built or
\* not started, shutdown) closes it exactly once, by the deferred Close,
\* before main exits the process; and a closed pool is never used or
\* reopened. Only a process killed by a second signal exits with its pool
\* open.
\* ------------------------------------------------------------------------
C20_PoolClosedOnceOnReturn ==
    [][/\ closeCount' \in {0, 1}
       /\ (pool' = "closed") <=> (closeCount' = 1)
       /\ pc' = "main" => (pool' # "open" /\ (pool' = "none" => runErr' # Nil))
       /\ (pool = "open" /\ pool' # "open") => (pc = "deferred" /\ pool' = "closed")
       /\ (pc' = "exited" /\ pool' = "open") => (ctxCancelled' /\ exitCode' = 1)
       /\ pool = "closed" =>
             /\ pool' = "closed"
             /\ conn' = NoConn
             /\ UNCHANGED <<conn, lastDial, health, lastCheck, tables, executed>>]_vars

C20_Witness ==
    /\ pc = "exited"
    /\ exitCode = 0
    /\ ~initFlag
    /\ pool = "closed"
    /\ closeCount = 1
    /\ lastDial.dialed
    /\ health = "healthy"

\* ------------------------------------------------------------------------
\* C21: a gate that ends because its context is done, before its first
\* attempt or in the select of a sleep, returns a non-nil error labelled
\* "timeout while waiting for ..." that wraps the context's error and not the
\* failure of the last invocation of the probe; and a gate called with a
\* context that is already done returns without invoking the probe at all.
\* ------------------------------------------------------------------------
C21_CancelledGateError ==
    [][/\ (gpc = "idle" /\ ctxCancelled /\ gpc' # "idle") =>
             /\ gpc' = "returned"
             /\ calls' = 0
             /\ gateErr' # Nil
       /\ (gpc = "select" /\ sel = "done" /\ gpc' # "select") =>
             /\ gpc' = "returned"
             /\ calls' = calls
       /\ gpc = "returned" => (gpc' = "returned" /\ calls' = calls /\ gateErr' = gateErr)
       /\ (gpc' = "returned" /\ oks' = 0 /\ fails' < Attempts
              /\ gateErr'.cause # "rest config") =>
             /\ ctxCancelled'
             /\ gateErr' = Err(TimeoutLabel(gate'), "context canceled", 0)
             /\ gateErr' # lastErr']_vars

C21_Witness ==
    /\ ctxCancelled
    /\ gpc = "returned"
    /\ calls = 0
    /\ sleepCancel = -1
    /\ gateErr = Err("timeout while waiting for Postgres", "context canceled", 0)

====
